---- MODULE Spec2Model ----
(***************************************************************************)
(* Model of src/main.py (ImageGenerationPlatform): credential loading, the *)
(* interactive shell, job submission, the bounded status poll and the      *)
(* saving of the returned images.                                          *)
(*                                                                         *)
(* Text is a sequence of one-character strings.  A JSON value, and an      *)
(* exception raised by an expression, is a pair <<tag, payload>>.          *)
(* Requests take no time; the clock counts the seconds slept since the     *)
(* current prompt was read.                                                *)
(***************************************************************************)
EXTENDS Integers, Sequences, FiniteSets, TLC

\* Largest number of entries of an "images" array the remote service returns.
MaxImages == 3

\* range(10) of _process_generation and the argument of time.sleep.
MaxAttempts == 10
SleepSeconds == 5

None == <<"null", "">>
JStr(s) == <<"str", s>>
JList(l) == <<"list", l>>
JDict(d) == <<"dict", d>>
Exc(name) == <<"exc", name>>
IsExc(v) == v[1] = "exc"

----------------------------------------------------------------------------
(* Python text operations used by the program *)

IsSpace(c) == c = " "

RECURSIVE LStrip(_)
LStrip(s) == IF s # <<>> /\ IsSpace(Head(s)) THEN LStrip(Tail(s)) ELSE s

RECURSIVE RStrip(_)
RStrip(s) ==
  IF s # <<>> /\ IsSpace(s[Len(s)]) THEN RStrip(SubSeq(s, 1, Len(s) - 1)) ELSE s

\* str.strip()
Strip(s) == RStrip(LStrip(s))

LowerChar(c) ==
  CASE c = "E" -> "e" [] c = "X" -> "x" [] c = "I" -> "i" [] c = "T" -> "t"
    [] c = "Q" -> "q" [] c = "U" -> "u" [] OTHER -> c

\* str.lower()
Lower(s) == [i \in 1..Len(s) |-> LowerChar(s[i])]


----------------------------------------------------------------------------
(* Python operations on parsed JSON *)

\* j[0]
GetItem0(j) ==
  CASE j[1] = "list" -> IF Len(j[2]) >= 1 THEN j[2][1] ELSE Exc("IndexError")
    [] j[1] = "str"  -> IF Len(j[2]) >= 1 THEN JStr(<<j[2][1]>>) ELSE Exc("IndexError")
    [] j[1] = "dict" -> Exc("KeyError")
    [] OTHER         -> Exc("TypeError")

\* j[key] for a str key
GetItemKey(j, key) ==
  CASE j[1] = "dict" -> IF key \in DOMAIN j[2] THEN j[2][key] ELSE Exc("KeyError")
    [] OTHER         -> Exc("TypeError")

\* j.get(key, default)
DictGet(j, key, default) ==
  CASE j[1] = "dict" -> IF key \in DOMAIN j[2] THEN j[2][key] ELSE default
    [] OTHER         -> Exc("AttributeError")

\* bool(v) of a str or of None
Truthy(v) == v[1] = "str" /\ v[2] # <<>>

\* value == 'literal'
EqStr(j, lit) == j[1] = "str" /\ j[2] = lit

\* the items a for loop over v visits, or the TypeError it raises
Iterate(v) ==
  CASE v[1] = "list" -> <<"items", v[2]>>
    [] v[1] = "str"  -> <<"items", [i \in 1..Len(v[2]) |-> JStr(<<v[2][i]>>)]>>
    [] OTHER         -> Exc("TypeError")

----------------------------------------------------------------------------
(* base64.b64decode(image): binascii.a2b_base64 without strict mode *)

\* table_a2b_base64, for the characters the payloads below are made of
Sextet(c) ==
  CASE c = "A" -> 0 [] c = "B" -> 1 [] c = "D" -> 3 [] c = "I" -> 8
    [] c = "Q" -> 16 [] c = "/" -> 63 [] OTHER -> 64

RECURSIVE A2B(_, _, _, _, _)
A2B(s, quad_pos, leftchar, pads, out) ==
  IF s = <<>>
  THEN IF quad_pos # 0 THEN Exc("binascii.Error") ELSE <<"bytes", out>>
  ELSE LET c == Head(s)
           v == Sextet(c)
       IN  IF c = "="
           THEN IF quad_pos >= 2 /\ quad_pos + pads + 1 >= 4
                THEN <<"bytes", out>>
                ELSE A2B(Tail(s), quad_pos, leftchar,
                         IF quad_pos >= 2 THEN pads + 1 ELSE pads, out)
           ELSE IF v >= 64
           THEN A2B(Tail(s), quad_pos, leftchar, pads, out)
           ELSE CASE quad_pos = 0 -> A2B(Tail(s), 1, v, 0, out)
                  [] quad_pos = 1 ->
                       A2B(Tail(s), 2, v % 16, 0,
                           Append(out, (leftchar * 4 + v \div 16) % 256))
                  [] quad_pos = 2 ->
                       A2B(Tail(s), 3, v % 4, 0,
                           Append(out, (leftchar * 16 + v \div 4) % 256))
                  [] OTHER ->
                       A2B(Tail(s), 0, 0, 0,
                           Append(out, (leftchar * 64 + v) % 256))

B64Decode(image) ==
  IF image[1] = "str" THEN A2B(image[2], 0, 0, 0, <<>>) ELSE Exc("TypeError")

----------------------------------------------------------------------------
(* What the environment supplies *)

Txt_k == <<"k">>
Txt_cat == <<"c", "a", "t">>

\* image_gen_config.json: absent, not JSON, or the JSON value it holds
ConfigKinds == {"missing", "unparsable", "complete", "nosecret", "emptykey", "array"}
ConfigOf(kind) ==
  CASE kind = "missing"    -> <<"missing", "">>
    [] kind = "unparsable" -> <<"unparsable", "">>
    [] kind = "complete"   -> JDict([api_key |-> JStr(Txt_k), secret_key |-> JStr(Txt_k)])
    [] kind = "nosecret"   -> JDict([api_key |-> JStr(Txt_k)])
    [] kind = "emptykey"   -> JDict([api_key |-> JStr(<<>>), secret_key |-> JStr(Txt_k)])
    [] OTHER               -> JList(<<>>)

\* lines typed at the two credential prompts
KeyInputs == {Txt_k, <<" ", "k", " ">>, <<>>, <<" ">>}

\* lines typed at the image prompt
PromptInputs ==
  { <<"e", "x", "i", "t">>, <<" ", "Q", "u", "i", "t">>, <<"Q">>, <<>>, <<" ", " ">>,
    Txt_cat, <<" ", "f", "o", "x", " ">> }

\* GET /key/api/v1/models: the request fails, the body is no JSON, or the body
ModelsKinds == {"neterr", "notjson", "empty", "object", "string", "noid", "models"}
ModelsBody(kind) ==
  CASE kind = "empty"  -> JList(<<>>)
    [] kind = "object" -> JDict([error |-> JStr("unauthorized")])
    [] kind = "string" -> JStr(<<"m", "1">>)
    [] kind = "noid"   -> JList(<<JDict([name |-> JStr("Kandinsky")])>>)
    [] OTHER           -> JList(<<JDict([id |-> JStr("m1")]), JDict([id |-> JStr("m2")])>>)

\* POST /key/api/v1/text2image/run
RunKinds == {"neterr", "notjson", "array", "uuid", "nouuid"}
RunBody(kind) ==
  CASE kind = "array"  -> JList(<<>>)
    [] kind = "uuid"   -> JDict([uuid |-> JStr("abc")])
    [] OTHER           -> JDict([status |-> JStr("INITIAL")])

\* one element of an "images" array: base64 of 3 zero bytes, base64 of the byte
\* 1, a string with incorrect padding, and null
Payloads ==
  { JStr(<<"A", "A", "A", "A">>), JStr(<<"A", "Q", "=", "=">>), JStr(<<"A", "A", "A">>),
    None }
ImageLists == UNION { [1..n -> Payloads] : n \in 0..MaxImages }

\* GET /key/api/v1/text2image/status/{uuid}
NonTerminalKinds == {"PROCESSING", "INITIAL", "done", "nostatus", "nullstatus"}
StatusKinds ==
  {"neterr", "notjson", "array", "DONE", "DONE_noimages", "DONE_nullimages", "FAILED",
   "FAILED_images"}
    \cup NonTerminalKinds
StatusBody(kind, imgs) ==
  CASE kind = "array"           -> JList(<<>>)
    [] kind = "DONE"            -> JDict([status |-> JStr("DONE"), images |-> JList(imgs)])
    [] kind = "DONE_noimages"   -> JDict([status |-> JStr("DONE")])
    [] kind = "DONE_nullimages" -> JDict([status |-> JStr("DONE"), images |-> None])
    [] kind = "FAILED"          -> JDict([status |-> JStr("FAILED")])
    [] kind = "FAILED_images"   ->
         JDict([status |-> JStr("FAILED"), images |-> JList(<<JStr(<<"A", "A", "A", "A">>)>>)])
    [] kind = "done"            -> JDict([status |-> JStr("done")])
    [] kind = "nostatus"        -> JDict([uuid |-> JStr("abc")])
    [] kind = "nullstatus"      -> JDict([status |-> None])
    [] OTHER                    -> JDict([status |-> JStr(kind)])

\* the kinds that fail in transport, that report "DONE", that report "FAILED"
RaisingKinds == {"neterr", "notjson", "array"}
DoneKinds == {"DONE", "DONE_noimages", "DONE_nullimages"}
FailedKinds == {"FAILED", "FAILED_images"}

\* requests.get / requests.post followed by .json(): the parsed body or the
\* exception raised
Fetch(kind, body) ==
  CASE kind = "neterr"  -> Exc("ConnectionError")
    [] kind = "notjson" -> Exc("JSONDecodeError")
    [] OTHER            -> body

\* open(name, "wb") and f.write(data)
PersistOutcomes == {"ok", "open_fails", "write_fails"}

----------------------------------------------------------------------------
(* State *)

VARIABLES
  pc,             \* where the program is
  crash,          \* the exception that ended the process, "" while it runs
  configFile,     \* image_gen_config.json
  api_key, secret_key,
  line,           \* the line interactive_mode read last
  prompt,         \* that line stripped
  request_uuid,   \* what generate_image passes to _process_generation
  attempt,        \* the loop variable of _process_generation
  clock,          \* seconds slept since the prompt was read
  base64_images,  \* the items _save_images iterates over
  index,          \* position of _save_images in base64_images, from 1
  timestamp,      \* taken by _save_images before its loop
  saved_paths,
  files,          \* files written since the prompt was read: name -> bytes
  result,         \* what generate_image returned to interactive_mode
  logged,         \* messages logged by the last call of generate_image
  reported,       \* what interactive_mode printed last
  modelQueries, runPosts, statusQueries,  \* requests issued since the prompt was read
  modelsKind, runKind, lastStatus,  \* kind of the last response to each request
  failedAt, doneAt, raisedAt,  \* number of the first status query answered FAILED,
                               \* answered DONE, failed in transport; 0 if none
  cause,          \* why the last call of generate_image returned
  persistFailed,  \* positions whose open or write raised
  stored,         \* positions written to the sink, in the order written
  seen            \* <<cause, result>> of the failed generations of this session

configVars == <<configFile, api_key, secret_key>>
jobVars == <<request_uuid, attempt, clock, modelsKind, runKind, lastStatus, failedAt, doneAt,
             raisedAt>>
saveVars == <<base64_images, index, timestamp, saved_paths, files, persistFailed, stored>>
countVars == <<modelQueries, runPosts, statusQueries>>
outVars == <<result, logged, cause>>
vars == <<pc, crash, configVars, line, prompt, jobVars, saveVars, countVars, outVars,
          reported, seen>>

Unset == <<"unset", "">>
NoFiles == [n \in {} |-> <<>>]

\* the values the per-prompt variables have when no generation is under way
Idle ==
  /\ request_uuid = Unset /\ attempt = 0 /\ clock = 0
  /\ modelsKind = "" /\ runKind = "" /\ lastStatus = ""
  /\ failedAt = 0 /\ doneAt = 0 /\ raisedAt = 0
  /\ base64_images = <<>> /\ index = 0 /\ timestamp = 0 /\ saved_paths = <<>>
  /\ files = NoFiles /\ persistFailed = {} /\ stored = <<>>
  /\ modelQueries = 0 /\ runPosts = 0 /\ statusQueries = 0
  /\ result = <<>> /\ logged = <<>> /\ cause = ""

Init ==
  /\ pc = "load"
  /\ crash = ""
  /\ \E kind \in ConfigKinds : configFile = ConfigOf(kind)
  /\ api_key = Unset /\ secret_key = Unset
  /\ line = <<>> /\ prompt = <<>>
  /\ Idle
  /\ reported = [what |-> "", n |-> 0]
  /\ seen = {}

----------------------------------------------------------------------------
(* __init__: _load_or_create_configuration, _first_time_configuration *)

\* a check of the API key alone
CredentialsMissingOnlyApi(a, s) == ~Truthy(a)

\* the check that ends _load_or_create_configuration
CredentialsMissing(a, s) == ~Truthy(a) \/ ~Truthy(s)

Validate(a, s) ==
  IF CredentialsMissing(a, s)
  THEN pc' = "crashed" /\ crash' = "ValueError"
  ELSE pc' = "shell" /\ crash' = ""

LoadConfiguration ==
  /\ pc = "load"
  /\ IF configFile[1] \in {"missing", "unparsable"}
     THEN /\ pc' = "first_time"
          /\ UNCHANGED <<crash, configVars>>
     ELSE LET a == DictGet(configFile, "api_key", None)
              s == DictGet(configFile, "secret_key", None)
          IN  IF IsExc(a)
              THEN /\ pc' = "crashed" /\ crash' = a[2]
                   /\ UNCHANGED configVars
              ELSE /\ api_key' = a /\ secret_key' = s
                   /\ Validate(a, s)
                   /\ UNCHANGED configFile
  /\ UNCHANGED <<line, prompt, jobVars, saveVars, countVars, outVars, reported, seen>>

FirstTimeConfiguration ==
  /\ pc = "first_time"
  /\ \E l1 \in KeyInputs, l2 \in KeyInputs :
       LET a == JStr(Strip(l1))
           s == JStr(Strip(l2))
       IN  /\ api_key' = a /\ secret_key' = s
           /\ configFile' = JDict([api_key |-> a, secret_key |-> s])
           /\ Validate(a, s)
  /\ UNCHANGED <<line, prompt, jobVars, saveVars, countVars, outVars, reported, seen>>

----------------------------------------------------------------------------
(* interactive_mode *)

ExitWords == { <<"e", "x", "i", "t">>, <<"q", "u", "i", "t">>, <<"q">> }

\* the comparison without .lower()
IsExitCaseSensitive(p) == p \in ExitWords

\* prompt.lower() in ['exit', 'quit', 'q']
IsExit(p) == Lower(p) \in ExitWords

\* one pass of the while loop up to the call of generate_image
ReadPrompt ==
  /\ pc = "shell"
  /\ \E typed \in PromptInputs :
       LET p == Strip(typed)
       IN  /\ line' = typed
           /\ prompt' = p
           /\ IF IsExit(p)
              THEN /\ pc' = "exited" /\ reported' = [what |-> "bye", n |-> 0]
                   /\ UNCHANGED <<logged, cause>>
              ELSE IF p = <<>>
              THEN /\ pc' = "shell" /\ reported' = [what |-> "ask_again", n |-> 0]
                   /\ UNCHANGED <<logged, cause>>
              ELSE /\ pc' = "models" /\ reported' = [what |-> "generating", n |-> 0]
                   /\ logged' = <<>> /\ cause' = ""
  /\ UNCHANGED <<crash, configVars, jobVars, saveVars, countVars, result, seen>>

----------------------------------------------------------------------------
(* generate_image *)

\* the except clause letting the exception through
CaughtReraises(why) ==
  /\ pc' = "crashed"
  /\ UNCHANGED outVars

\* except Exception: log the error and return []
Caught(why) ==
  /\ pc' = "report"
  /\ result' = <<>>
  /\ logged' = Append(logged, "generation_error")
  /\ cause' = why

\* a model chosen whatever the model list is
SelectModelDefault(r) ==
  IF ~IsExc(r) /\ ~IsExc(GetItem0(r)) /\ ~IsExc(GetItemKey(GetItem0(r), "id"))
  THEN GetItemKey(GetItem0(r), "id")
  ELSE JStr("default")

\* response_models.json()[0]['id'], r being response_models.json() or what it raised
SelectModel(r) ==
  IF IsExc(r) THEN r
  ELSE LET first == GetItem0(r)
       IN  IF IsExc(first) THEN first ELSE GetItemKey(first, "id")

QueryModels ==
  /\ pc = "models"
  /\ modelQueries' = modelQueries + 1
  /\ \E kind \in ModelsKinds :
       LET model_id == SelectModel(Fetch(kind, ModelsBody(kind)))
       IN  /\ modelsKind' = kind
           /\ IF IsExc(model_id)
              THEN Caught("submission_failed")
              ELSE pc' = "run" /\ UNCHANGED outVars
  /\ UNCHANGED <<crash, configVars, line, prompt, request_uuid, attempt, clock, runKind,
                 lastStatus, failedAt, doneAt, raisedAt, saveVars, runPosts, statusQueries,
                 reported, seen>>

\* response_generation.json().get('uuid')
ExtractUuid(r) == IF IsExc(r) THEN r ELSE DictGet(r, "uuid", None)

PostRun ==
  /\ pc = "run"
  /\ runPosts' = runPosts + 1
  /\ \E kind \in RunKinds :
       LET uuid == ExtractUuid(Fetch(kind, RunBody(kind)))
       IN  /\ runKind' = kind
           /\ IF IsExc(uuid)
              THEN Caught("submission_failed") /\ UNCHANGED request_uuid
              ELSE pc' = "poll" /\ request_uuid' = uuid /\ UNCHANGED outVars
  /\ UNCHANGED <<crash, configVars, line, prompt, attempt, clock, modelsKind, lastStatus, failedAt,
                 doneAt, raisedAt, saveVars, modelQueries, statusQueries, reported, seen>>

----------------------------------------------------------------------------
(* _process_generation *)

\* the comparisons with the markers written in another letter case
IsDoneWrongCase(status) == EqStr(status, "Done")
IsFailedWrongCase(status) == EqStr(status, "Failed")

\* a comparison that ignores the letter case; one that takes FAILED for DONE too
IsDoneAnyCase(status) == EqStr(status, "DONE") \/ EqStr(status, "done")
IsDoneOrFailed(status) == EqStr(status, "DONE") \/ EqStr(status, "FAILED")

\* status_data.get('status') == 'DONE', == 'FAILED'
IsDone(status) == EqStr(status, "DONE")
IsFailed(status) == EqStr(status, "FAILED")

\* status_data.get('status'), r being response_status.json() or what it raised
ExtractStatus(r) == IF IsExc(r) THEN r ELSE DictGet(r, "status", None)

\* status_data.get('images', [])
ExtractImages(r) == DictGet(r, "images", JList(<<>>))

\* a loop that always has another pass
LoopContinuesForever(a) == TRUE

\* a loop of one pass too many
LoopContinuesOneMore(a) == a <= MaxAttempts

\* for attempt in range(10): is there a pass for the value a
LoopContinues(a) == a < MaxAttempts

\* one pass of the loop up to time.sleep; on DONE, the entry into _save_images
QueryStatus ==
  /\ pc = "poll"
  /\ statusQueries' = statusQueries + 1
  /\ \E kind \in StatusKinds :
     \E imgs \in (IF kind = "DONE" THEN ImageLists ELSE {<<>>}) :
       LET r == Fetch(kind, StatusBody(kind, imgs))
           status == ExtractStatus(r)
           items == Iterate(ExtractImages(r))
           first(at, kinds) == IF at = 0 /\ kind \in kinds THEN statusQueries + 1 ELSE at
       IN  /\ lastStatus' = kind
           /\ failedAt' = first(failedAt, FailedKinds)
           /\ doneAt' = first(doneAt, DoneKinds)
           /\ raisedAt' = first(raisedAt, RaisingKinds)
           /\ IF IsExc(status)
              THEN /\ Caught("transport_error")
                   /\ UNCHANGED <<base64_images, index, timestamp>>
              ELSE IF IsDone(status)
              THEN IF IsExc(items)
                   THEN /\ Caught("bad_images")
                        /\ UNCHANGED <<base64_images, index, timestamp>>
                   ELSE /\ pc' = "save"
                        /\ base64_images' = items[2]
                        /\ index' = 1
                        /\ timestamp' = clock
                        /\ UNCHANGED outVars
              ELSE IF IsFailed(status)
              THEN /\ pc' = "report"
                   /\ result' = <<>>
                   /\ logged' = Append(logged, "generation_failed")
                   /\ cause' = "remote_failure"
                   /\ UNCHANGED <<base64_images, index, timestamp>>
              ELSE /\ pc' = "sleep"
                   /\ UNCHANGED <<base64_images, index, timestamp, outVars>>
  /\ UNCHANGED <<crash, configVars, line, prompt, request_uuid, attempt, clock, modelsKind, runKind,
                 saved_paths, files, persistFailed, stored, modelQueries, runPosts, reported,
                 seen>>

\* the loop without a sleep after its last pass
SleepSkipsLastWait ==
  /\ pc = "sleep"
  /\ IF LoopContinues(attempt + 1)
     THEN /\ clock' = clock + SleepSeconds
          /\ attempt' = attempt + 1
          /\ pc' = "poll"
          /\ UNCHANGED outVars
     ELSE /\ pc' = "report"
          /\ result' = <<>>
          /\ cause' = "timeout"
          /\ UNCHANGED <<clock, attempt, logged>>
  /\ UNCHANGED <<crash, configVars, line, prompt, request_uuid, modelsKind, runKind, lastStatus,
                 failedAt, doneAt, raisedAt, saveVars, countVars, reported, seen>>

\* time.sleep(5), then the next pass or the return [] after the loop
Sleep ==
  /\ pc = "sleep"
  /\ clock' = clock + SleepSeconds
  /\ IF LoopContinues(attempt + 1)
     THEN /\ attempt' = attempt + 1
          /\ pc' = "poll"
          /\ UNCHANGED outVars
     ELSE /\ pc' = "report"
          /\ result' = <<>>
          /\ cause' = "timeout"
          /\ UNCHANGED <<attempt, logged>>
  /\ UNCHANGED <<crash, configVars, line, prompt, request_uuid, modelsKind, runKind, lastStatus,
                 failedAt, doneAt, raisedAt, saveVars, countVars, reported, seen>>

----------------------------------------------------------------------------
(* _save_images *)

\* a name that carries the position of the payload
SafeFilenameIndexed(ts, p, i) == <<ts, p, i>>

\* f"{timestamp}_{prompt}.png", for the payload at position i
SafeFilename(ts, p, i) == <<ts, p>>

\* the sink after open(name, "wb") and f.write(data)
Written(fs, name, data) ==
  [n \in DOMAIN fs \cup {name} |-> IF n = name THEN data ELSE fs[n]]

\* the loop abandoned at the first image that raises
NextIndexAbandons(i, n) == n + 1

\* the position the loop goes to after the image at i of n raised: the except
\* clause is inside the loop
NextIndexAfterError(i, n) == i + 1

\* one pass of the for loop
SaveImage ==
  /\ pc = "save"
  /\ index <= Len(base64_images)
  /\ LET name == SafeFilename(timestamp, prompt, index)
         image_data == B64Decode(base64_images[index])
         failed == /\ logged' = Append(logged, "save_error")
                   /\ index' = NextIndexAfterError(index, Len(base64_images))
                   /\ UNCHANGED <<saved_paths, stored>>
     IN  IF IsExc(image_data)
         THEN failed /\ UNCHANGED <<files, persistFailed>>
         ELSE \E outcome \in PersistOutcomes :
                CASE outcome = "ok" ->
                       /\ files' = Written(files, name, image_data[2])
                       /\ saved_paths' = Append(saved_paths, name)
                       /\ stored' = Append(stored, index)
                       /\ logged' = Append(logged, "saved")
                       /\ index' = index + 1
                       /\ UNCHANGED persistFailed
                  [] outcome = "open_fails" ->
                       /\ failed
                       /\ persistFailed' = persistFailed \cup {index}
                       /\ UNCHANGED files
                  [] OTHER ->
                       /\ failed
                       /\ persistFailed' = persistFailed \cup {index}
                       /\ files' = Written(files, name, <<>>)
  /\ UNCHANGED <<pc, crash, configVars, line, prompt, jobVars, base64_images, timestamp, countVars,
                 result, cause, reported, seen>>

\* return saved_paths
ReturnSaved ==
  /\ pc = "save"
  /\ index > Len(base64_images)
  /\ pc' = "report"
  /\ result' = saved_paths
  /\ cause' = "done"
  /\ UNCHANGED <<crash, configVars, line, prompt, jobVars, saveVars, countVars, logged,
                 reported, seen>>

----------------------------------------------------------------------------
(* interactive_mode, after generate_image has returned *)

FailureCauses == {"remote_failure", "timeout", "transport_error"}

\* if images: ... else: ...
Printed(images) ==
  IF images # <<>> THEN [what |-> "success", n |-> Len(images)]
  ELSE [what |-> "failure", n |-> 0]

Report ==
  /\ pc = "report"
  /\ reported' = Printed(result)
  /\ seen' = IF cause \in FailureCauses THEN seen \cup {<<cause, result>>} ELSE seen
  /\ pc' = "shell"
  /\ request_uuid' = Unset /\ attempt' = 0 /\ clock' = 0
  /\ modelsKind' = "" /\ runKind' = "" /\ lastStatus' = ""
  /\ failedAt' = 0 /\ doneAt' = 0 /\ raisedAt' = 0
  /\ base64_images' = <<>> /\ index' = 0 /\ timestamp' = 0 /\ saved_paths' = <<>>
  /\ files' = NoFiles /\ persistFailed' = {} /\ stored' = <<>>
  /\ modelQueries' = 0 /\ runPosts' = 0 /\ statusQueries' = 0
  /\ result' = <<>>
  /\ UNCHANGED <<crash, configVars, line, prompt, logged, cause>>

----------------------------------------------------------------------------
(* KeyboardInterrupt: no except clause of the program catches it *)

Interrupt ==
  /\ pc \in {"shell", "models", "run", "poll", "sleep", "save", "report"}
  /\ pc' = "crashed"
  /\ crash' = "KeyboardInterrupt"
  /\ UNCHANGED <<configVars, line, prompt, jobVars, saveVars, countVars, outVars, reported, seen>>

----------------------------------------------------------------------------

Next ==
  \/ LoadConfiguration
  \/ FirstTimeConfiguration
  \/ ReadPrompt
  \/ QueryModels
  \/ PostRun
  \/ QueryStatus
  \/ Sleep
  \/ SaveImage
  \/ ReturnSaved
  \/ Report

Spec == Init /\ [][Next]_vars

\* the program with interrupts delivered at any point after startup
NextInterrupt == Next \/ Interrupt

SpecInterrupt == Init /\ [][NextInterrupt]_vars

----------------------------------------------------------------------------
(* Properties *)

Range(f) == { f[i] : i \in DOMAIN f }

\* C1: when a status query reports "FAILED" at query k (1 <= k <= 10) before any
\* "DONE", the poll ends at query k with the remote-failure outcome (the error
\* "Generation failed" is logged and the empty list returned) and no status
\* query for the job follows query k.
C1_FailedEndsPoll ==
  failedAt # 0 =>
    /\ failedAt \in 1..MaxAttempts
    /\ statusQueries = failedAt
    /\ pc = "report"
    /\ cause = "remote_failure"
    /\ result = <<>>
    /\ logged = <<"generation_failed">>

C1_Witness == pc = "report" /\ failedAt = MaxAttempts

\* C2: when no status response carries a terminal marker and none fails in
\* transport, the poll ends with the timeout outcome after exactly 10 status
\* queries: never fewer, never an 11th.
C2_TimeoutAfterTenQueries ==
  /\ statusQueries <= MaxAttempts
  /\ (pc = "report" /\ statusQueries > 0 /\ failedAt = 0 /\ doneAt = 0 /\ raisedAt = 0)
       => (statusQueries = MaxAttempts /\ cause = "timeout" /\ result = <<>>)
  /\ (pc = "report" /\ cause = "timeout")
       => (statusQueries = MaxAttempts /\ lastStatus \in NonTerminalKinds)

C2_Witness ==
  pc = "report" /\ cause = "timeout" /\ statusQueries = MaxAttempts /\ clock > 0

AllDecode(imgs) == \A i \in 1..Len(imgs) : ~IsExc(B64Decode(imgs[i]))

\* C3: when a status query at attempt k reports "DONE" with n payloads that all
\* decode and persist, the poll stops at query k, no further status query is
\* issued, and the list returned has exactly n entries (n = 0 when the images
\* field is empty or absent).
C3_DoneYieldsAllImages ==
  /\ doneAt # 0 => (statusQueries = doneAt /\ pc \in {"save", "report"})
  /\ (pc = "report" /\ lastStatus \in {"DONE", "DONE_noimages"}
        /\ AllDecode(base64_images) /\ persistFailed = {})
       => (Len(result) = Len(base64_images) /\ cause = "done")

C3_Witness ==
  /\ pc = "report" /\ doneAt > 1 /\ lastStatus = "DONE"
  /\ AllDecode(base64_images) /\ persistFailed = {}
  /\ Len(base64_images) >= 2 /\ Len(result) = Len(base64_images)

\* C4: a status query that fails in transport counts as one consumed attempt:
\* the job stays pending and the loop waits before the next status query.
C4_TransportErrorConsumesAttempt ==
  (raisedAt # 0 /\ statusQueries = raisedAt /\ raisedAt < MaxAttempts) => pc = "sleep"

\* C5: remote failure, timeout and transport error return different values to
\* the caller: two generations that ended for different ones of these reasons
\* never returned the same value.
C5_OutcomesDistinct ==
  \A a \in seen, b \in seen : a[1] # b[1] => a[2] # b[2]

\* C6: when the response to the run POST carries no uuid, no status query is
\* issued for that prompt.
C6_NoQueryWithoutUuid == runKind = "nouuid" => statusQueries = 0

BadModelsKinds == ModelsKinds \ {"models"}

\* C7: the run POST is issued at most once per prompt; when the model-list
\* query fails or returns a missing, empty or malformed list the run POST is
\* not issued and the prompt yields zero results.
C7_RunPostedAtMostOnce ==
  /\ runPosts <= 1
  /\ modelQueries <= 1
  /\ modelsKind \in BadModelsKinds =>
       (runPosts = 0 /\ statusQueries = 0 /\ pc = "report" /\ result = <<>>)

C7_Witness == pc = "report" /\ modelsKind = "empty" /\ runPosts = 0

\* C8: once cancellation is requested during an in-progress poll, the poll
\* ends by returning a Cancelled outcome to the shell.
C8_CancelEndsPollAsCancelled ==
  [][(pc \in {"poll", "sleep"} /\ crash' = "KeyboardInterrupt")
       => (pc' = "report" /\ cause' = "cancelled")]_vars

\* the positions of imgs that decode and whose write did not fail, ascending
Survivors(imgs, failedSet) ==
  SelectSeq([i \in 1..Len(imgs) |-> i],
            LAMBDA i : ~IsExc(B64Decode(imgs[i])) /\ i \notin failedSet)

\* C9: _save_images attempts every payload and returns exactly one identifier
\* per payload that decoded and persisted, in payload order; a failure on one
\* payload never discards or skips a later one.
C9_MaterializeKeepsSurvivors ==
  /\ pc = "save" =>
       /\ stored = Survivors(SubSeq(base64_images, 1, index - 1), persistFailed)
       /\ Len(saved_paths) = Len(stored)
  /\ (pc = "report" /\ lastStatus \in {"DONE", "DONE_noimages"}) =>
       /\ index = Len(base64_images) + 1
       /\ stored = Survivors(base64_images, persistFailed)
       /\ Len(result) = Len(stored)
       /\ \A j \in 1..Len(result) : result[j] = SafeFilename(timestamp, prompt, stored[j])

C9_Witness ==
  /\ pc = "report" /\ Len(base64_images) = 3
  /\ IsExc(B64Decode(base64_images[2]))
  /\ stored = <<1, 3>> /\ Len(result) = 2

GenerationPcs == {"models", "run", "poll", "sleep", "save", "report"}

\* an error of submission, polling, decoding or persisting happened in the call
ErrorOccurred ==
  \/ cause \in FailureCauses \cup {"submission_failed", "bad_images"}
  \/ "save_error" \in Range(logged)

JobState ==
  CASE request_uuid = Unset             -> "None"
    [] failedAt # 0 /\ doneAt = 0       -> "Failed"
    [] failedAt # 0 /\ failedAt < doneAt -> "Failed"
    [] doneAt # 0                       -> "Done"
    [] cause = "timeout"                -> "TimedOut"
    [] OTHER                            -> "Pending"

TerminalStates == {"Done", "Failed", "TimedOut"}

\* C11: within a call, once the job is Done, Failed or TimedOut it never polls
\* again (is never Pending again) and never changes to another terminal state;
\* the attempt counter never decreases and changes only while the job is
\* Pending and the loop is running.
C11_JobStateMonotonic ==
  [][request_uuid' # Unset =>
       /\ JobState \in TerminalStates =>
            (JobState' = JobState /\ attempt' = attempt /\ pc' \notin {"poll", "sleep"})
       /\ attempt' >= attempt
       /\ attempt' # attempt => (JobState = "Pending" /\ pc = "sleep")]_vars

C11_Witness == pc = "report" /\ JobState = "Failed" /\ attempt = 4 /\ statusQueries = 5

\* C12: the shell does not go on to read the next prompt before the job of the
\* current call has reached Done, Failed or TimedOut, or its submission has
\* failed.
C12_NextPromptOnlyAfterTerminal ==
  [][(pc = "report" /\ pc' = "shell") =>
       (JobState \in TerminalStates \/ cause = "submission_failed")]_vars


RequestsIssued == modelQueries + runPosts + statusQueries

\* C13: the program never gets past startup with a missing or empty
\* credential: if after loading or collecting them the API key or the secret
\* key is missing or empty, startup fails with the configuration error and no
\* request is ever issued.
C13_NoRunWithoutCredentials ==
  /\ pc \notin {"load", "first_time", "crashed"} => (Truthy(api_key) /\ Truthy(secret_key))
  /\ RequestsIssued > 0 => (Truthy(api_key) /\ Truthy(secret_key))
  /\ (api_key[1] # "unset" /\ (~Truthy(api_key) \/ ~Truthy(secret_key))) =>
       (pc = "crashed" /\ crash = "ValueError" /\ RequestsIssued = 0 /\ reported.what = "")

C13_Witness ==
  /\ pc = "crashed" /\ crash = "ValueError"
  /\ Truthy(api_key) /\ ~Truthy(secret_key) /\ RequestsIssued = 0

\* the persisted structure is absent, unparsable or lacks a non-empty key
Incomplete(f) ==
  \/ f[1] # "dict"
  \/ ~Truthy(DictGet(f, "api_key", None))
  \/ ~Truthy(DictGet(f, "secret_key", None))

\* C14: whenever the persisted credential structure is absent or incomplete,
\* both values are collected interactively.
C14_IncompleteConfigIsCollected ==
  [][(pc = "load" /\ Incomplete(configFile)) => pc' = "first_time"]_vars


\* the part of a typed line between its first and its last non-blank character
Core(l) ==
  LET inked == { i \in 1..Len(l) : l[i] # " " }
  IN  IF inked = {} THEN <<>>
      ELSE SubSeq(l, CHOOSE i \in inked : \A j \in inked : i <= j,
                     CHOOSE i \in inked : \A j \in inked : i >= j)

Capital(c) ==
  CASE c = "e" -> "E" [] c = "x" -> "X" [] c = "i" -> "I" [] c = "t" -> "T"
    [] c = "q" -> "Q" [] c = "u" -> "U" [] OTHER -> c

\* w is "exit", "quit" or "q" written in any letter case
IsSentinel(w) ==
  \E word \in { <<"e", "x", "i", "t">>, <<"q", "u", "i", "t">>, <<"q">> } :
     /\ Len(w) = Len(word)
     /\ \A i \in 1..Len(word) : w[i] \in {word[i], Capital(word[i])}

\* C15: in the shell an empty or whitespace-only line triggers no submission
\* and the shell asks again; an exit sentinel in any letter case ends the
\* session without any request; every other line starts exactly one generation
\* for that prompt, and a generation starts in no other way.
C15_ShellDispatch ==
  [][/\ pc = "shell" =>
          /\ RequestsIssued' = 0
          /\ IF Core(line') = <<>>
             THEN pc' = "shell" /\ reported'.what = "ask_again"
             ELSE IF IsSentinel(Core(line'))
             THEN pc' = "exited"
             ELSE pc' = "models" /\ prompt' = Core(line')
     /\ pc' = "models" => pc = "shell"
     /\ pc = "models" => (pc' # "models" /\ modelQueries' = 1)
     /\ pc = "exited" => pc' = "exited"]_vars

C15_Witness == pc = "exited" /\ line = <<" ", "Q", "u", "i", "t">> /\ RequestsIssued = 0


\* C16: a reported status other than "DONE" and "FAILED" (an unknown value,
\* another letter case, no status field) leaves the job pending and consumes
\* exactly one attempt; it never ends the poll before the 10th query.
C16_NonTerminalConsumesOneAttempt ==
  /\ lastStatus \in NonTerminalKinds =>
       /\ failedAt = 0 /\ doneAt = 0
       /\ \/ pc \in {"sleep", "poll"}
          \/ pc = "report" /\ statusQueries = MaxAttempts /\ cause = "timeout"
  /\ pc = "sleep" => (statusQueries = attempt + 1 /\ lastStatus \in NonTerminalKinds)
  /\ pc = "poll" => statusQueries = attempt

C16_Witness == pc = "sleep" /\ lastStatus = "done" /\ statusQueries = 3

\* C17: the poll waits 5 time units only after a non-terminal status query and
\* never before the first query: ending in DONE or FAILED at query k it has
\* waited 5*(k-1), timing out it has waited 50.
C17_WaitsFiveAfterEachNonTerminal ==
  /\ statusQueries = 0 => clock = 0
  /\ pc = "poll" => clock = 5 * statusQueries
  /\ pc = "sleep" => clock = 5 * (statusQueries - 1)
  /\ (pc = "report" /\ failedAt # 0) => clock = 5 * (failedAt - 1)
  /\ (pc \in {"save", "report"} /\ doneAt # 0) => clock = 5 * (doneAt - 1)
  /\ (pc = "report" /\ cause = "timeout") => clock = 50

C17_Witness == pc = "report" /\ cause = "timeout" /\ clock = 50 /\ statusQueries = 10

\* C18: image files are persisted only for a job whose status query reported
\* "DONE": when the job ends Failed or TimedOut, or the submission or a status
\* query fails, no file is persisted for the prompt.
C18_FilesOnlyAfterDone ==
  /\ (DOMAIN files # {} \/ stored # <<>>) => (lastStatus = "DONE" /\ doneAt = statusQueries)
  /\ (\/ failedAt # 0
      \/ raisedAt # 0
      \/ cause \in {"remote_failure", "timeout", "transport_error", "submission_failed"}
         /\ pc = "report")
       => (DOMAIN files = {} /\ stored = <<>> /\ saved_paths = <<>> /\ result = <<>>)

C18_Witness ==
  /\ pc = "report" /\ lastStatus = "FAILED_images" /\ cause = "remote_failure"
  /\ DOMAIN files = {} /\ statusQueries = 2


\* the stage of generate_image a position belongs to, later stages being lower
Phase(p) ==
  CASE p = "models"             -> 4
    [] p = "run"                -> 3
    [] p \in {"poll", "sleep"}  -> 2
    [] p = "save"               -> 1
    [] p = "report"             -> 0
    [] OTHER                    -> -1

\* what is left to do within the stage
Remaining ==
  CASE pc = "poll"  -> 2 * (MaxAttempts - attempt)
    [] pc = "sleep" -> 2 * (MaxAttempts - attempt) - 1
    [] pc = "save"  -> Len(base64_images) + 1 - index
    [] OTHER        -> 0

\* one step of the call: to a later stage or with strictly less left to do
\* in the stage, leaving the call only through the report of a list
Progresses ==
  /\ \/ Phase(pc') < Phase(pc)
     \/ Phase(pc') = Phase(pc) /\ Remaining' < Remaining /\ Remaining' >= 0
  /\ pc' \in GenerationPcs \cup {"shell"}
  /\ pc' = "shell" => (pc = "report" /\ reported'.n = Len(result))

\* C19: every generate_image call terminates, each transport call returning or
\* raising: in every position of the call a step is possible, every step moves
\* to a later stage or leaves strictly less to do in the stage, the call leaves
\* only by returning a list to the shell, and it issues at most 1 model-list
\* query, 1 run POST and 10 status queries.
C19_GenerateImageTerminates ==
  /\ [](pc \in GenerationPcs => ENABLED Next)
  /\ [](modelQueries <= 1 /\ runPosts <= 1 /\ statusQueries <= 10)
  /\ [][(pc \in GenerationPcs) => Progresses]_vars

C19_Witness == pc = "shell" /\ cause = "timeout" /\ reported.what = "failure" /\ line # <<>>


\* the sink holds one file, with the content of the last payload, under the
\* one name all the returned identifiers have
LastPayloadWins ==
  /\ Len(result) = Len(base64_images)
  /\ \A j \in 1..Len(result) : result[j] = <<timestamp, prompt>>
  /\ DOMAIN files = {<<timestamp, prompt>>}
  /\ files[<<timestamp, prompt>>] = B64Decode(base64_images[Len(base64_images)])[2]

\* C20 as stated: for a result with n >= 2 payloads that all decode, n
\* identical identifiers are returned while the sink ends up holding a single
\* file whose content is the last payload.
C20_AllDecodeGivesOneFile ==
  (pc = "report" /\ lastStatus = "DONE" /\ Len(base64_images) >= 2 /\ AllDecode(base64_images))
    => LastPayloadWins

\* C20: within one materialization every payload is given the same name, the
\* timestamp taken before the loop plus the prompt, with no per-image index;
\* for a result with n >= 2 payloads that all decode and persist, n identical
\* identifiers are returned while the sink ends up holding a single file whose
\* content is the last payload.
C20_SameNameLastPayloadWins ==
  /\ \A j \in 1..Len(saved_paths) : saved_paths[j] = <<timestamp, prompt>>
  /\ DOMAIN files \subseteq {<<timestamp, prompt>>}
  /\ (pc = "report" /\ lastStatus = "DONE" /\ Len(base64_images) >= 2
        /\ AllDecode(base64_images) /\ persistFailed = {})
       => LastPayloadWins

C20_Witness ==
  /\ pc = "report" /\ Len(base64_images) = 2 /\ persistFailed = {}
  /\ AllDecode(base64_images)
  /\ B64Decode(base64_images[1])[2] = <<0, 0, 0>>
  /\ B64Decode(base64_images[2])[2] = <<1>>
  /\ result = <<<<timestamp, prompt>>, <<timestamp, prompt>>>>
  /\ files[<<timestamp, prompt>>] = <<1>>

====
